---- MODULE Spec2Model ----
(***************************************************************************)
(* A model of src/iot_integration.js: the IoTIntegration class, which      *)
(* fetches a JSON telemetry document, merges it into a caller-owned        *)
(* equipment list, classifies its freshness, and polls on a repeating      *)
(* timer.  JavaScript is single threaded: every action below is one        *)
(* run-to-completion segment of the code (a synchronous method, or the     *)
(* continuation of an async method after an await settles).                *)
(***************************************************************************)
EXTENDS Integers, Sequences, FiniteSets, Bags, TLC

VARIABLES
    autoUpdateEnabled,  \* this.autoUpdateEnabled
    updateTimer,        \* this.updateTimer: undefined, null or a timer handle
    timers,             \* the runtime's interval table, one entry per setInterval
    calls,              \* bag of async invocations suspended at an await
    issued,             \* async invocations and ticks started so far
    equipmentData,      \* the host's equipment list (mutated in place)
    last                \* what the most recent step did (history)

vars == <<autoUpdateEnabled, updateTimer, timers, calls, issued, equipmentData, last>>

----------------------------------------------------------------------------
(* Bounds of the model *)

MaxCalls == 2
MaxTimers == 2
MaxEquip == 2

(* Constants of the program *)

updateInterval == 30000
MsPerMinute == 60000
StaleMinutes == 60
OfflineMinutes == 1440
MinutesPerHour == 60

----------------------------------------------------------------------------
(* JavaScript values.  Every value that can be undefined, null, a string,  *)
(* a number or an object is boxed, so that strict equality and truthiness  *)
(* are computed as the language computes them.                             *)

JsUndefined == [type |-> "undefined"]
JsNull == [type |-> "null"]
Str(s) == [type |-> "string", s |-> s]
Num(n) == [type |-> "number", nan |-> FALSE, v |-> n]
NaN == [type |-> "number", nan |-> TRUE, v |-> 0]
Obj(props) == [type |-> "object", props |-> props]

\* ToBoolean: undefined, null, "", 0 and NaN are falsy; objects are truthy.
Truthy(x) ==
    CASE x.type = "undefined" -> FALSE
      [] x.type = "null" -> FALSE
      [] x.type = "string" -> x.s # ""
      [] x.type = "number" -> ~x.nan /\ x.v # 0
      [] x.type = "object" -> TRUE

\* a === b on the values of the model: primitives by type and value, NaN
\* unequal to itself, two distinct parsed objects never identical.
StrictEquals(a, b) ==
    /\ a.type = b.type
    /\ a.type # "object"
    /\ (a.type = "number" => ~a.nan /\ ~b.nan)
    /\ a = b

\* o[k] / o.k: undefined when the property is missing or o is a primitive.
\* (Read only after o was tested truthy, as the code does.)
Get(o, k) ==
    IF o.type = "object" /\ k \in DOMAIN o.props THEN o.props[k] ELSE JsUndefined

\* o.k = v: the property is created or overwritten, the others are kept.
Put(o, k, v) ==
    Obj([p \in DOMAIN o.props \cup {k} |-> IF p = k THEN v ELSE o.props[p]])

\* JavaScript arithmetic on numbers, NaN propagating.
Minus(a, b) == IF a.nan \/ b.nan THEN NaN ELSE Num(a.v - b.v)
\* Mutant of FloorDiv: the quotient truncated toward zero (Math.trunc).
TruncDiv(a, d) ==
    IF a.nan THEN NaN
    ELSE IF a.v >= 0 THEN Num(a.v \div d) ELSE Num(0 - ((0 - a.v) \div d))

\* Math.floor(a / d) for d > 0: \div rounds toward minus infinity, as floor does.
FloorDiv(a, d) == IF a.nan THEN NaN ELSE Num(a.v \div d)

\* Mutant of Rem: the remainder not taken.
RemIdentity(a, d) == a

\* a % d for d > 0: the remainder has the sign of the dividend.
Rem(a, d) ==
    IF a.nan THEN NaN
    ELSE IF a.v >= 0 THEN Num(a.v % d) ELSE Num(0 - ((0 - a.v) % d))
\* Mutant of GreaterThan: the comparison written >=.
AtLeast(a, k) == ~a.nan /\ a.v >= k

\* a > k: false whenever a is NaN.
GreaterThan(a, k) == ~a.nan /\ a.v > k

----------------------------------------------------------------------------
(* Dates.  Milliseconds are counted from 2024-01-01T00:00:00Z instead of   *)
(* 1970 so that they fit TLC's 32-bit integers; only differences matter.   *)

DateTable == <<
    [text |-> "2024-01-03T00:00:30.000Z", ms |-> 172830000, locale |-> "1/3/2024, 12:00:30 AM"],
    [text |-> "2024-01-03T00:00:00.000Z", ms |-> 172800000, locale |-> "1/3/2024, 12:00:00 AM"],
    [text |-> "2024-01-02T22:59:00.001Z", ms |-> 169140001, locale |-> "1/2/2024, 10:59:00 PM"],
    [text |-> "2024-01-02T22:59:00.000Z", ms |-> 169140000, locale |-> "1/2/2024, 10:59:00 PM"],
    [text |-> "2024-01-02T22:30:00.000Z", ms |-> 167400000, locale |-> "1/2/2024, 10:30:00 PM"],
    [text |-> "2024-01-01T23:59:00.001Z", ms |-> 86340001, locale |-> "1/1/2024, 11:59:00 PM"],
    [text |-> "2024-01-01T23:59:00.000Z", ms |-> 86340000, locale |-> "1/1/2024, 11:59:00 PM"],
    [text |-> "2024-01-01T23:00:00.000Z", ms |-> 82800000, locale |-> "1/1/2024, 11:00:00 PM"] >>

\* new Date(x): the time value of a parseable string, NaN (Invalid Date) for
\* an unparseable one and for undefined.
NewDate(x) ==
    IF x.type = "string" /\ \E i \in DOMAIN DateTable : DateTable[i].text = x.s
    THEN Num(DateTable[CHOOSE i \in DOMAIN DateTable : DateTable[i].text = x.s].ms)
    ELSE NaN

\* date.toLocaleString()
ToLocaleString(d) ==
    IF d.nan THEN "Invalid Date"
    ELSE DateTable[CHOOSE i \in DOMAIN DateTable : DateTable[i].ms = d.v].locale

\* The instants new Date() can read.
Clock == {172800000, 172860000}

----------------------------------------------------------------------------
(* The inputs: what the data file can hold and what the host can pass.     *)

RequiredFields == {"device_id", "equipment_mapping", "current_hours", "last_updated"}
EquipNumbers == {"E1", "E2"}

\* Identifiers a mapping can name: a matching one, another device's, and a
\* falsy one (the empty string).
MappedIds == {Str(""), Str("dev1"), Str("dev2")}
DocumentIds == {Str(""), Str("dev1")}

\* equipment_mapping objects: any subset of the equipment numbers as keys.
Mappings ==
    {Obj(m) : m \in {f \in UNION {[S -> MappedIds] : S \in SUBSET EquipNumbers} :
                        "E2" \in DOMAIN f => f["E2"] = Str("dev1")}}

\* (current_hours, last_updated) of two different readings.
Readings == {<<Num(5), Str("2024-01-03T00:00:00.000Z")>>,
             <<Num(7), Str("2024-01-02T22:30:00.000Z")>>}

MkDocument(F, dev, map, hrs, ts) ==
    Obj([f \in F |-> CASE f = "device_id" -> dev
                       [] f = "equipment_mapping" -> map
                       [] f = "current_hours" -> hrs
                       [] f = "last_updated" -> ts])

\* Every combination of device_id (present or not), equipment_mapping
\* (present or not) and reading.
MergeDocuments ==
    {MkDocument(F, d, m, r[1], r[2]) :
        F \in {RequiredFields, RequiredFields \ {"device_id"},
               RequiredFields \ {"equipment_mapping"}},
        d \in DocumentIds, m \in Mappings, r \in Readings}

\* Documents that match both equipment numbers and lack the reading's
\* fields, and the empty object.
PartialDocuments ==
    {MkDocument(F, Str("dev1"), Obj([E1 |-> Str("dev1"), E2 |-> Str("dev1")]), r[1], r[2]) :
        F \in {RequiredFields \ {"current_hours"}, RequiredFields \ {"last_updated"}, {}},
        r \in Readings}

\* Documents of every age the status classification distinguishes, and one
\* whose timestamp does not parse.
StatusDocuments ==
    {MkDocument(RequiredFields, Str("dev1"), Obj([E1 |-> Str("dev1")]), Num(5), Str(t)) :
        t \in {DateTable[i].text : i \in DOMAIN DateTable} \cup {"not a date"}}

\* What response.json() can resolve to: a document, or the JSON value null.
JsonValues == MergeDocuments \cup PartialDocuments \cup StatusDocuments \cup {JsNull}

\* The values the data file holds while polling is modelled: two documents
\* with different readings that match both equipment numbers, one without a
\* mapping, one stale, and null.
PollValues ==
    {MkDocument(RequiredFields, Str("dev1"), Obj([E1 |-> Str("dev1"), E2 |-> Str("dev1")]), r[1], r[2]) :
        r \in Readings}
    \cup {MkDocument(RequiredFields \ {"equipment_mapping"}, Str("dev1"), JsNull,
                     Num(5), Str("2024-01-03T00:00:00.000Z")),
          JsNull}

\* The records the host owns before any merge: bare, or carrying a manual
\* reading that no document of the model holds.
EquipRecords ==
    {Obj([equipmentNumber |-> Str("E1")]),
     Obj([equipmentNumber |-> Str("E2"),
          currentHours |-> Num(100),
          lastIoTUpdate |-> Str("2024-01-01T23:00:00.000Z")])}

EquipLists == UNION {[1..n -> EquipRecords] : n \in 0..MaxEquip}

\* What the host passes to startAutoUpdate: a function that awaits
\* updateEquipmentWithIoTData on its list, one that awaits getIoTStatus, or
\* something that is not a function.
Callbacks == {"updateEquipmentWithIoTData", "getIoTStatus", "notAFunction"}

----------------------------------------------------------------------------
(* fetchIoTData.  The environment decides how the retrieval ends:          *)
(*   networkError  fetch() rejects                  (line 18)              *)
(*   httpError     response.ok is false             (lines 19-21)          *)
(*   malformed     response.json() rejects          (line 22)              *)
(*   json          response.json() resolves to data (line 22)              *)
(* A result is [raised, value]: raised means the async method rejected.    *)

Failures == {"networkError", "httpError", "malformed"}

\* The try block ends by an exception.
Thrown(outcome) == outcome.kind \in Failures

\* Mutant of fetchIoTData: no catch clause, the exception reaches the caller.
fetchIoTDataNoCatch(outcome) ==
    IF Thrown(outcome)
    THEN [raised |-> TRUE, value |-> JsNull]
    ELSE [raised |-> FALSE, value |-> outcome.data]

\* Mutant of fetchIoTData: a parsed value that lacks a required field is
\* rejected and null returned.
fetchIoTDataValidating(outcome) ==
    IF Thrown(outcome)
    THEN [raised |-> FALSE, value |-> JsNull]
    ELSE IF outcome.data.type = "object" /\ RequiredFields \subseteq DOMAIN outcome.data.props
    THEN [raised |-> FALSE, value |-> outcome.data]
    ELSE [raised |-> FALSE, value |-> JsNull]

fetchIoTData(outcome) ==
    IF Thrown(outcome)
    THEN [raised |-> FALSE, value |-> JsNull]          \* catch: return null
    ELSE [raised |-> FALSE, value |-> outcome.data]    \* return data

\* Mutant of refreshIoTData: the return keyword forgotten.
refreshIoTDataNoReturn(outcome) ==
    [raised |-> fetchIoTData(outcome).raised, value |-> JsUndefined]

refreshIoTData(outcome) == fetchIoTData(outcome)

----------------------------------------------------------------------------
(* updateEquipmentWithIoTData, after its await.                            *)

\* Mutant of UpdateRecord: lastIoTUpdate is not assigned.
UpdateRecordHoursOnly(equipment, iotData) ==
    LET deviceId == Get(Get(iotData, "equipment_mapping"), Get(equipment, "equipmentNumber").s)
    IN  IF Truthy(deviceId) /\ StrictEquals(deviceId, Get(iotData, "device_id"))
        THEN Put(equipment, "currentHours", Get(iotData, "current_hours"))
        ELSE equipment

\* Mutant of UpdateRecord: the comparison with device_id left out.
UpdateRecordAnyDevice(equipment, iotData) ==
    LET deviceId == Get(Get(iotData, "equipment_mapping"), Get(equipment, "equipmentNumber").s)
    IN  IF Truthy(deviceId)
        THEN Put(Put(equipment, "currentHours", Get(iotData, "current_hours")),
                 "lastIoTUpdate", Get(iotData, "last_updated"))
        ELSE equipment

\* The body of the forEach callback, on one record.
UpdateRecord(equipment, iotData) ==
    LET deviceId == Get(Get(iotData, "equipment_mapping"), Get(equipment, "equipmentNumber").s)
    IN  IF Truthy(deviceId) /\ StrictEquals(deviceId, Get(iotData, "device_id"))
        THEN Put(Put(equipment, "currentHours", Get(iotData, "current_hours")),
                 "lastIoTUpdate", Get(iotData, "last_updated"))
        ELSE equipment

\* Mutant of updateEquipmentWithIoTData: the guard tests iotData only, so
\* indexing a missing equipment_mapping throws a TypeError.
updateEquipmentNoMappingGuard(fetched, list) ==
    IF fetched.raised
    THEN [raised |-> TRUE, value |-> list]
    ELSE IF ~Truthy(fetched.value)
    THEN [raised |-> FALSE, value |-> list]
    ELSE IF ~Truthy(Get(fetched.value, "equipment_mapping")) /\ list # <<>>
    THEN [raised |-> TRUE, value |-> list]
    ELSE [raised |-> FALSE,
          value |-> [i \in DOMAIN list |-> UpdateRecord(list[i], fetched.value)]]

\* fetched is the result of fetchIoTData; list is the argument.  The list
\* returned is the argument itself, so value is also the list's new content.
updateEquipmentWithIoTData(fetched, list) ==
    IF fetched.raised
    THEN [raised |-> TRUE, value |-> list]
    ELSE IF ~Truthy(fetched.value) \/ ~Truthy(Get(fetched.value, "equipment_mapping"))
    THEN [raised |-> FALSE, value |-> list]
    ELSE [raised |-> FALSE,
          value |-> [i \in DOMAIN list |-> UpdateRecord(list[i], fetched.value)]]

----------------------------------------------------------------------------
(* getIoTStatus, after its await.  A message is its template and the       *)
(* numbers interpolated into it.                                           *)

Unavailable ==
    [status |-> "offline",
     message |-> [text |-> "IoT data unavailable", args |-> <<>>],
     lastUpdate |-> "Never"]

StatusOf(iotData, now) ==
    LET lastUpdate == NewDate(Get(iotData, "last_updated"))
        timeDiff == Minus(Num(now), lastUpdate)
        minutesDiff == FloorDiv(timeDiff, MsPerMinute)
        current == [status |-> "online",
                    message |-> [text |-> "IoT data current (%1 min ago)",
                                 args |-> <<minutesDiff>>]]
        stale == IF GreaterThan(minutesDiff, StaleMinutes)
                 THEN [status |-> "stale",
                       message |-> [text |-> "IoT data stale (%1h %2m ago)",
                                    args |-> <<FloorDiv(minutesDiff, MinutesPerHour),
                                               Rem(minutesDiff, MinutesPerHour)>>]]
                 ELSE current
        final == IF GreaterThan(minutesDiff, OfflineMinutes)
                 THEN [status |-> "offline",
                       message |-> [text |-> "IoT data very old (>24h)", args |-> <<>>]]
                 ELSE stale
    IN  [status |-> final.status,
         message |-> final.message,
         lastUpdate |-> ToLocaleString(lastUpdate),
         deviceId |-> Get(iotData, "device_id"),
         currentHours |-> Get(iotData, "current_hours")]

\* Mutant of getIoTStatus: no test of iotData, so reading last_updated of
\* null throws a TypeError.
getIoTStatusNoGuard(fetched, now) ==
    IF fetched.raised \/ ~Truthy(fetched.value)
    THEN [raised |-> TRUE, value |-> Unavailable]
    ELSE [raised |-> FALSE, value |-> StatusOf(fetched.value, now)]

getIoTStatus(fetched, now) ==
    IF fetched.raised
    THEN [raised |-> TRUE, value |-> Unavailable]
    ELSE IF ~Truthy(fetched.value)
    THEN [raised |-> FALSE, value |-> Unavailable]
    ELSE [raised |-> FALSE, value |-> StatusOf(fetched.value, now)]

----------------------------------------------------------------------------
(* The state machine.                                                      *)

\* Mutant of NewTimer: the first tick is due at once, not after an interval.
NewTimerDue(callback) ==
    [callback |-> callback, active |-> TRUE, elapsed |-> updateInterval, fired |-> 0]

\* A timer handle is a positive number (truthy); its table entry holds the
\* callback given to startAutoUpdate, whether clearInterval has not yet been
\* called on it, the time waited since the last tick, and its ticks so far.
NewTimer(callback) ==
    [callback |-> callback, active |-> TRUE, elapsed |-> 0, fired |-> 0]

\* An async method suspended at an await: which method, at which await
\* ("fetch": line 18, "json": line 22), and the timer whose tick invoked it
\* (0: the host called it directly).  attempts counts the retrievals the
\* invocation has issued: fetch() is called once, at line 18, in no loop.
Suspended(op, pc, timer) == [op |-> op, pc |-> pc, timer |-> timer, attempts |-> 1]

Methods == {"fetchIoTData", "refreshIoTData", "updateEquipmentWithIoTData", "getIoTStatus"}

\* The constructor (lines 7-11) sets no updateTimer; the host owns a list.
Init ==
    /\ autoUpdateEnabled = FALSE
    /\ updateTimer = JsUndefined
    /\ timers = <<>>
    /\ calls = EmptyBag
    /\ issued = 0
    /\ equipmentData \in EquipLists
    /\ last = [op |-> "constructor"]

\* The host calls an async method: it runs to its first await, the fetch.
Call(op) ==
    /\ issued < MaxCalls
    /\ issued' = issued + 1
    /\ calls' = calls (+) SetToBag({Suspended(op, "fetch", 0)})
    /\ last' = [op |-> "call", method |-> op]
    /\ UNCHANGED <<autoUpdateEnabled, updateTimer, timers, equipmentData>>

\* Mutant of startAutoUpdate: no test of autoUpdateEnabled.
startAutoUpdateUnguarded(callback) ==
    /\ Len(timers) < MaxTimers
    /\ autoUpdateEnabled' = TRUE
    /\ timers' = Append(timers, NewTimer(callback))
    /\ updateTimer' = Num(Len(timers) + 1)
    /\ last' = [op |-> "startAutoUpdate", callback |-> callback, started |-> TRUE]
    /\ UNCHANGED <<calls, issued, equipmentData>>

\* startAutoUpdate(callback), lines 97-111.
startAutoUpdate(callback) ==
    IF autoUpdateEnabled
    THEN /\ last' = [op |-> "startAutoUpdate", callback |-> callback, started |-> FALSE]
         /\ UNCHANGED <<autoUpdateEnabled, updateTimer, timers, calls, issued, equipmentData>>
    ELSE /\ Len(timers) < MaxTimers
         /\ autoUpdateEnabled' = TRUE
         /\ timers' = Append(timers, NewTimer(callback))
         /\ updateTimer' = Num(Len(timers) + 1)
         /\ last' = [op |-> "startAutoUpdate", callback |-> callback, started |-> TRUE]
         /\ UNCHANGED <<calls, issued, equipmentData>>

\* Mutant of ClearInterval: the timer is not cancelled.
ClearIntervalNoop(handle) == timers

\* clearInterval(handle): the runtime drops the timer; it never ticks again.
ClearInterval(handle) == [timers EXCEPT ![handle.v].active = FALSE]

\* Mutant of stopAutoUpdate: no test of updateTimer.
stopAutoUpdateUnguarded ==
    /\ timers' = IF Truthy(updateTimer) THEN ClearInterval(updateTimer) ELSE timers
    /\ updateTimer' = JsNull
    /\ autoUpdateEnabled' = FALSE
    /\ last' = [op |-> "stopAutoUpdate", stopped |-> TRUE]
    /\ UNCHANGED <<calls, issued, equipmentData>>

\* Mutant of stopAutoUpdate: autoUpdateEnabled is not reset.
stopAutoUpdateKeepsFlag ==
    IF Truthy(updateTimer)
    THEN /\ timers' = ClearInterval(updateTimer)
         /\ updateTimer' = JsNull
         /\ last' = [op |-> "stopAutoUpdate", stopped |-> TRUE]
         /\ UNCHANGED <<autoUpdateEnabled, calls, issued, equipmentData>>
    ELSE /\ last' = [op |-> "stopAutoUpdate", stopped |-> FALSE]
         /\ UNCHANGED <<autoUpdateEnabled, updateTimer, timers, calls, issued, equipmentData>>

\* Mutant of stopAutoUpdate: the invocations of the stopped timer that are
\* suspended at an await are aborted.
stopAutoUpdateAborting ==
    IF Truthy(updateTimer)
    THEN /\ timers' = ClearInterval(updateTimer)
         /\ updateTimer' = JsNull
         /\ autoUpdateEnabled' = FALSE
         /\ calls' = [c \in {d \in BagToSet(calls) : d.timer # updateTimer.v} |-> calls[c]]
         /\ last' = [op |-> "stopAutoUpdate", stopped |-> TRUE]
         /\ UNCHANGED <<issued, equipmentData>>
    ELSE /\ last' = [op |-> "stopAutoUpdate", stopped |-> FALSE]
         /\ UNCHANGED <<autoUpdateEnabled, updateTimer, timers, calls, issued, equipmentData>>

\* stopAutoUpdate(), lines 116-123.
stopAutoUpdate ==
    IF Truthy(updateTimer)
    THEN /\ timers' = ClearInterval(updateTimer)
         /\ updateTimer' = JsNull
         /\ autoUpdateEnabled' = FALSE
         /\ last' = [op |-> "stopAutoUpdate", stopped |-> TRUE]
         /\ UNCHANGED <<calls, issued, equipmentData>>
    ELSE /\ last' = [op |-> "stopAutoUpdate", stopped |-> FALSE]
         /\ UNCHANGED <<autoUpdateEnabled, updateTimer, timers, calls, issued, equipmentData>>

\* Time passes for a live timer until its next tick is due, one interval
\* after it was set or last ticked.
TimePasses(t) ==
    /\ timers[t].active
    /\ timers[t].elapsed < updateInterval
    /\ timers' = [timers EXCEPT ![t].elapsed = updateInterval]
    /\ last' = [op |-> "timePasses", timer |-> t]
    /\ UNCHANGED <<autoUpdateEnabled, updateTimer, calls, issued, equipmentData>>

\* The method a callback awaits.
CallbackMethod(callback) == callback

\* Mutant of Tick: a tick is skipped while an earlier invocation of the
\* timer is still suspended.
TickSerialized(t) ==
    /\ timers[t].active
    /\ timers[t].elapsed >= updateInterval
    /\ \A c \in BagToSet(calls) : c.timer # t
    /\ issued < MaxCalls
    /\ issued' = issued + 1
    /\ timers' = [timers EXCEPT ![t].elapsed = 0, ![t].fired = @ + 1]
    /\ calls' = IF timers[t].callback # "notAFunction"
                THEN calls (+) SetToBag({Suspended(CallbackMethod(timers[t].callback), "fetch", t)})
                ELSE calls
    /\ last' = [op |-> "tick", timer |-> t]
    /\ UNCHANGED <<autoUpdateEnabled, updateTimer, equipmentData>>

\* A tick of timer t, lines 106-110: the arrow function runs whether or not
\* an earlier invocation is still suspended, and awaits callback() if
\* callback is a function.
Tick(t) ==
    /\ timers[t].active
    /\ timers[t].elapsed >= updateInterval
    /\ issued < MaxCalls
    /\ issued' = issued + 1
    /\ timers' = [timers EXCEPT ![t].elapsed = 0, ![t].fired = @ + 1]
    /\ calls' = IF timers[t].callback # "notAFunction"
                THEN calls (+) SetToBag({Suspended(CallbackMethod(timers[t].callback), "fetch", t)})
                ELSE calls
    /\ last' = [op |-> "tick", timer |-> t]
    /\ UNCHANGED <<autoUpdateEnabled, updateTimer, equipmentData>>

\* The retrieval of call c has ended with outcome: fetchIoTData returns (or
\* rejects) and the method that awaited it runs to its end.
Complete(c, outcome) ==
    LET fetched == IF c.op = "refreshIoTData" THEN refreshIoTData(outcome)
                   ELSE fetchIoTData(outcome)
        done(r, now) ==
            [op |-> c.op, timer |-> c.timer, attempts |-> c.attempts, outcome |-> outcome,
             raised |-> r.raised, result |-> r.value, before |-> equipmentData, now |-> now]
    IN  /\ calls' = calls (-) SetToBag({c})
        /\ UNCHANGED <<autoUpdateEnabled, updateTimer, timers, issued>>
        /\ CASE c.op \in {"fetchIoTData", "refreshIoTData"} ->
                  /\ last' = done(fetched, 0)
                  /\ UNCHANGED equipmentData
             [] c.op = "updateEquipmentWithIoTData" ->
                  LET r == updateEquipmentWithIoTData(fetched, equipmentData)
                  IN  /\ equipmentData' = r.value
                      /\ last' = done(r, 0)
             [] c.op = "getIoTStatus" ->
                  /\ \E now \in Clock : last' = done(getIoTStatus(fetched, now), now)
                  /\ UNCHANGED equipmentData

\* Mutant of FetchSettles: a failed retrieval is attempted once more.
FetchSettlesRetrying(c, how) ==
    /\ c \in BagToSet(calls)
    /\ c.pc = "fetch"
    /\ IF how = "ok"
       THEN /\ calls' = (calls (-) SetToBag({c})) (+) SetToBag({[c EXCEPT !.pc = "json"]})
            /\ last' = [op |-> "response", timer |-> c.timer]
            /\ UNCHANGED <<autoUpdateEnabled, updateTimer, timers, issued, equipmentData>>
       ELSE IF c.attempts < 2
       THEN /\ calls' = (calls (-) SetToBag({c})) (+) SetToBag({[c EXCEPT !.attempts = 2]})
            /\ last' = [op |-> "response", timer |-> c.timer]
            /\ UNCHANGED <<autoUpdateEnabled, updateTimer, timers, issued, equipmentData>>
       ELSE Complete(c, [kind |-> how])

\* await fetch(...) settles, line 18: the promise rejects, or resolves to a
\* response that is ok or not (lines 19-21).
FetchSettles(c, how) ==
    /\ c \in BagToSet(calls)
    /\ c.pc = "fetch"
    /\ IF how = "ok"
       THEN /\ calls' = (calls (-) SetToBag({c})) (+) SetToBag({Suspended(c.op, "json", c.timer)})
            /\ last' = [op |-> "response", timer |-> c.timer]
            /\ UNCHANGED <<autoUpdateEnabled, updateTimer, timers, issued, equipmentData>>
       ELSE Complete(c, [kind |-> how])

\* await response.json() settles, line 22: malformed JSON rejects, anything
\* else resolves to the parsed value.
JsonSettles(c, values) ==
    /\ c \in BagToSet(calls)
    /\ c.pc = "json"
    /\ \/ Complete(c, [kind |-> "malformed"])
       \/ \E data \in values : Complete(c, [kind |-> "json", data |-> data])

\* The list of a host that polls: one record of each kind.
PollList ==
    <<Obj([equipmentNumber |-> Str("E1")]),
      Obj([equipmentNumber |-> Str("E2"),
           currentHours |-> Num(100),
           lastIoTUpdate |-> Str("2024-01-01T23:00:00.000Z")])>>

InitPoll == Init /\ equipmentData = PollList

Next ==
    \/ \E callback \in Callbacks : startAutoUpdate(callback)
    \/ stopAutoUpdate
    \/ \E t \in DOMAIN timers : TimePasses(t)
    \/ \E t \in DOMAIN timers : Tick(t)
    \/ \E c \in BagToSet(calls), how \in {"ok", "httpError", "networkError"} : FetchSettles(c, how)
    \/ \E c \in BagToSet(calls) : JsonSettles(c, PollValues)

\* The client of a host that polls: every interleaving of startAutoUpdate,
\* stopAutoUpdate, the timers' ticks and the retrievals the callbacks start.
Spec == InitPoll /\ [][Next]_vars

\* The client of a host that calls the async methods directly, awaiting each
\* call before it makes the next, over every document of JsonValues.
NextSequential ==
    \/ \E op \in Methods : calls = EmptyBag /\ Call(op)
    \/ \E c \in BagToSet(calls), how \in {"ok", "httpError", "networkError"} : FetchSettles(c, how)
    \/ \E c \in BagToSet(calls) : JsonSettles(c, JsonValues)

SpecSequential == Init /\ [][NextSequential]_vars

\* The client of a host that polls its status (the callback awaits
\* getIoTStatus) and also calls the async methods directly, one direct call
\* at a time when nothing else is suspended.
NextMixed ==
    \/ \E op \in Methods : calls = EmptyBag /\ Call(op)
    \/ startAutoUpdate("getIoTStatus")
    \/ stopAutoUpdate
    \/ \E t \in DOMAIN timers : TimePasses(t)
    \/ \E t \in DOMAIN timers : Tick(t)
    \/ \E c \in BagToSet(calls), how \in {"ok", "httpError", "networkError"} : FetchSettles(c, how)
    \/ \E c \in BagToSet(calls) : JsonSettles(c, PollValues)

SpecMixed == InitPoll /\ [][NextMixed]_vars

\* A tick in a behaviour that never ends: as Tick, with ticks and invocations
\* not counted, and at most MaxCalls invocations suspended at a time.
LiveTick(t) ==
    /\ timers[t].active
    /\ timers[t].elapsed >= updateInterval
    /\ BagCardinality(calls) < MaxCalls
    /\ timers' = [timers EXCEPT ![t].elapsed = 0]
    /\ calls' = IF timers[t].callback # "notAFunction"
                THEN calls (+) SetToBag({Suspended(CallbackMethod(timers[t].callback), "fetch", t)})
                ELSE calls
    /\ last' = [op |-> "tick", timer |-> t]
    /\ UNCHANGED <<autoUpdateEnabled, updateTimer, issued, equipmentData>>

TimeStep == \E t \in DOMAIN timers : TimePasses(t)
TickStep == \E t \in DOMAIN timers : LiveTick(t)
FetchStep ==
    \E c \in BagToSet(calls), how \in {"ok", "httpError", "networkError"} : FetchSettles(c, how)
JsonStep == \E c \in BagToSet(calls) : JsonSettles(c, PollValues)

NextLive ==
    \/ \E callback \in {"getIoTStatus", "notAFunction"} : startAutoUpdate(callback)
    \/ stopAutoUpdate
    \/ TimeStep
    \/ TickStep
    \/ FetchStep
    \/ JsonStep

\* The polling client in behaviours that never end: time passes, the runtime
\* runs a tick that is due (no segment of the code blocks the event loop),
\* and every retrieval ends.
SpecLive ==
    /\ InitPoll
    /\ [][NextLive]_vars
    /\ WF_vars(TimeStep)
    /\ WF_vars(TickStep)
    /\ WF_vars(FetchStep)
    /\ WF_vars(JsonStep)

----------------------------------------------------------------------------
(* Properties of the async methods, under SpecSequential.                   *)

\* The step just taken completed a call of method op.
Completed(op) == last.op = op

\* updateEquipmentWithIoTData has just completed on a fetched document
\* whose equipment_mapping is present.
MergedWithMapping ==
    /\ Completed("updateEquipmentWithIoTData")
    /\ last.outcome.kind = "json"
    /\ Truthy(last.outcome.data)
    /\ "equipment_mapping" \in DOMAIN last.outcome.data.props

\* The record at position i, before the merge, is mapped by the document to
\* an identifier equal to the document's device_id.
MappedToDevice(i) ==
    LET doc == last.outcome.data
        key == Get(last.before[i], "equipmentNumber").s
        mapping == doc.props["equipment_mapping"].props
    IN  /\ key \in DOMAIN mapping
        /\ "device_id" \in DOMAIN doc.props
        /\ mapping[key] = doc.props["device_id"]

\* The record at position i carries the document's reading.
CarriesReading(i) ==
    /\ Get(equipmentData[i], "currentHours") = Get(last.outcome.data, "current_hours")
    /\ Get(equipmentData[i], "lastIoTUpdate") = Get(last.outcome.data, "last_updated")

\* C1 as stated: after a merge with a document that has an equipment_mapping,
\* every record whose number is mapped to an identifier equal to device_id
\* carries the document's current_hours and last_updated, and every other
\* record is unchanged, falsy identifiers included.
C1_AsStated ==
    MergedWithMapping =>
        /\ ~last.raised
        /\ DOMAIN equipmentData = DOMAIN last.before
        /\ \A i \in DOMAIN equipmentData :
              IF MappedToDevice(i) THEN CarriesReading(i)
              ELSE equipmentData[i] = last.before[i]

\* C1 amended: the same, for the records whose mapped identifier is truthy
\* (non-empty) and equal to device_id; a record whose mapped identifier is
\* falsy is unchanged even when device_id is the same falsy value.
C1_MergeUpdatesMatching ==
    MergedWithMapping =>
        /\ ~last.raised
        /\ last.result = equipmentData
        /\ DOMAIN equipmentData = DOMAIN last.before
        /\ \A i \in DOMAIN equipmentData :
              IF MappedToDevice(i)
                 /\ Truthy(last.outcome.data.props["device_id"])
              THEN /\ CarriesReading(i)
                   /\ Get(equipmentData[i], "equipmentNumber")
                        = Get(last.before[i], "equipmentNumber")
              ELSE equipmentData[i] = last.before[i]

\* A merge updated one record of the list and left alone another one, which
\* the document maps to a different device.
C1_Witness ==
    /\ MergedWithMapping
    /\ \E i, j \in DOMAIN equipmentData :
          /\ MappedToDevice(i)
          /\ equipmentData[i] # last.before[i]
          /\ Get(last.before[j], "equipmentNumber").s
                \in DOMAIN last.outcome.data.props["equipment_mapping"].props
          /\ ~MappedToDevice(j)
          /\ equipmentData[j] = last.before[j]

\* C2: a merge with a fetched document that lacks equipment_mapping returns
\* the input list with every field of every record unchanged.
C2_NoMappingNoChange ==
    ( /\ Completed("updateEquipmentWithIoTData")
      /\ last.outcome.kind = "json"
      /\ Truthy(last.outcome.data)
      /\ "equipment_mapping" \notin DOMAIN last.outcome.data.props )
    => /\ ~last.raised
       /\ last.result = last.before
       /\ equipmentData = last.before

\* Such a merge, of a document that names a device and a reading, on a list
\* with a record.
C2_Witness ==
    /\ Completed("updateEquipmentWithIoTData")
    /\ last.outcome.kind = "json"
    /\ Truthy(last.outcome.data)
    /\ DOMAIN last.outcome.data.props = RequiredFields \ {"equipment_mapping"}
    /\ Truthy(last.outcome.data.props["device_id"])
    /\ Len(last.before) > 0

\* C3: when the retrieval inside a merge fails (network error, non-success
\* response, malformed JSON), the merge completes without raising and returns
\* the input list with no record changed.
C3_MergeFailureNoChange ==
    (Completed("updateEquipmentWithIoTData") /\ last.outcome.kind \in Failures)
    => /\ ~last.raised
       /\ last.result = last.before
       /\ equipmentData = last.before

\* A merge on a list with a record whose retrieval got malformed JSON.
C3_Witness ==
    /\ Completed("updateEquipmentWithIoTData")
    /\ last.outcome.kind = "malformed"
    /\ Len(last.before) > 0

\* getIoTStatus has just completed on a fetched document whose last_updated
\* is a date.
StatusOfDatedDocument ==
    /\ Completed("getIoTStatus")
    /\ last.outcome.kind = "json"
    /\ Truthy(last.outcome.data)
    /\ ~NewDate(Get(last.outcome.data, "last_updated")).nan

\* The whole minutes between the document's last_updated and the clock read.
ElapsedMinutes ==
    (last.now - NewDate(Get(last.outcome.data, "last_updated")).v) \div 60000

\* C4: with m the elapsed whole minutes, the status is online exactly when
\* m <= 60, stale exactly when 60 < m <= 1440, and offline with the fixed
\* very-old message exactly when m > 1440.
C4_StatusClassification ==
    StatusOfDatedDocument =>
        /\ ~last.raised
        /\ (last.result.status = "online") <=> (ElapsedMinutes <= 60)
        /\ (last.result.status = "stale") <=> (60 < ElapsedMinutes /\ ElapsedMinutes <= 1440)
        /\ (last.result.status = "offline") <=> (ElapsedMinutes > 1440)
        /\ (last.result.status = "offline") <=>
              (last.result.message = [text |-> "IoT data very old (>24h)", args |-> <<>>])

\* A status computed at the boundary: 60 minutes and some seconds elapsed,
\* reported online.
C4_Witness ==
    /\ StatusOfDatedDocument
    /\ ElapsedMinutes = 60
    /\ last.result.status = "online"

\* C11: a stale status for m elapsed minutes has the message
\* '(m div 60)h (m mod 60)m ago', the two numbers adding up to m with the
\* minutes in 0..59; an online status has the message 'm min ago'.
C11_StatusMessage ==
    StatusOfDatedDocument =>
        /\ last.result.status = "stale" =>
              /\ last.result.message.text = "IoT data stale (%1h %2m ago)"
              /\ last.result.message.args
                    = <<Num(ElapsedMinutes \div 60), Num(ElapsedMinutes % 60)>>
              /\ last.result.message.args[1].v * 60 + last.result.message.args[2].v
                    = ElapsedMinutes
              /\ last.result.message.args[2].v \in 0..59
        /\ last.result.status = "online" =>
              last.result.message
                 = [text |-> "IoT data current (%1 min ago)", args |-> <<Num(ElapsedMinutes)>>]

\* A status for 90 elapsed minutes: stale, '1h 30m ago'.
C11_Witness ==
    /\ StatusOfDatedDocument
    /\ ElapsedMinutes = 90
    /\ last.result.status = "stale"
    /\ last.result.message.args = <<Num(1), Num(30)>>

\* getIoTStatus has just completed on a document dated later than the clock.
StatusOfFutureDocument ==
    /\ StatusOfDatedDocument
    /\ last.now < NewDate(Get(last.outcome.data, "last_updated")).v

\* C16: when last_updated is later than now, the elapsed minutes are the
\* negative floor of the difference (neither clamped nor rejected), the
\* status is online and the message states that negative number.
C16_NegativeElapsed ==
    StatusOfFutureDocument =>
        LET diff == last.now - NewDate(Get(last.outcome.data, "last_updated")).v
            m == last.result.message.args[1]
        IN  /\ ~last.raised
            /\ last.result.status = "online"
            /\ last.result.message.text = "IoT data current (%1 min ago)"
            /\ ~m.nan
            /\ m.v < 0
            /\ m.v * 60000 <= diff
            /\ diff < (m.v + 1) * 60000

\* A status for a document dated 30 seconds after the clock: -1 min ago.
C16_Witness ==
    /\ StatusOfFutureDocument
    /\ last.result.status = "online"
    /\ last.result.message.args = <<Num(0 - 1)>>

\* C5: when the retrieval inside getIoTStatus fails, the result is exactly
\* status offline, message 'IoT data unavailable', lastUpdate 'Never', with no
\* deviceId and no currentHours field, and nothing is raised.
C5_StatusUnavailable ==
    (Completed("getIoTStatus") /\ last.outcome.kind \in Failures)
    => /\ ~last.raised
       /\ DOMAIN last.result = {"status", "message", "lastUpdate"}
       /\ last.result.status = "offline"
       /\ last.result.message = [text |-> "IoT data unavailable", args |-> <<>>]
       /\ last.result.lastUpdate = "Never"

\* A status asked while the server answers with a non-success response.
C5_Witness ==
    /\ Completed("getIoTStatus")
    /\ last.outcome.kind = "httpError"

\* C9: fetchIoTData and refreshIoTData never raise: a failed retrieval
\* yields null and a successful one the parsed value.
C9_FetchNeverRaises ==
    (Completed("fetchIoTData") \/ Completed("refreshIoTData"))
    => /\ ~last.raised
       /\ last.outcome.kind \in Failures => last.result = JsNull
       /\ last.outcome.kind = "json" => last.result = last.outcome.data

\* A manual refresh that met a network error.
C9_Witness ==
    /\ Completed("refreshIoTData")
    /\ last.outcome.kind = "networkError"
    /\ last.result = JsNull

\* The value is an object with every required field.
HasRequiredFields(x) == x.type = "object" /\ RequiredFields \subseteq DOMAIN x.props

\* C10 as stated: every result of fetchIoTData is null or a document with all
\* the required fields.
C10_AsStated ==
    Completed("fetchIoTData") => (last.result = JsNull \/ HasRequiredFields(last.result))

\* C10 amended: every result of fetchIoTData is null or the parsed JSON value
\* exactly as retrieved; no field is validated, so a well-formed value that
\* lacks required fields is returned as it is.
C10_FetchReturnsParsedValue ==
    Completed("fetchIoTData") =>
        /\ last.result = JsNull \/ (last.outcome.kind = "json" /\ last.result = last.outcome.data)
        /\ (last.outcome.kind = "json" /\ ~HasRequiredFields(last.outcome.data))
              => last.result = last.outcome.data

\* fetchIoTData returned an object without device_id.
C10_Witness ==
    /\ Completed("fetchIoTData")
    /\ last.result.type = "object"
    /\ "device_id" \notin DOMAIN last.result.props
    /\ "current_hours" \in DOMAIN last.result.props

----------------------------------------------------------------------------
(* Properties of polling, under Spec.                                       *)

\* The timers on which clearInterval has not been called.
LiveTimers == {t \in DOMAIN timers : timers[t].active}

\* Timer t is not the one this.updateTimer holds: stopAutoUpdate has
\* returned since the startAutoUpdate that created it.
Stopped(t) == ~(updateTimer.type = "number" /\ updateTimer.v = t)

\* C6: startAutoUpdate called while polling is enabled changes no state and
\* schedules nothing: exactly one timer stays live, with the first call's
\* callback.
C6_StartIdempotent ==
    [][ (last'.op = "startAutoUpdate" /\ autoUpdateEnabled)
        => /\ UNCHANGED <<autoUpdateEnabled, updateTimer, timers, calls, issued, equipmentData>>
           /\ Cardinality(LiveTimers') = 1 ]_vars

\* A second startAutoUpdate, with another callback than the live timer's.
C6_Witness ==
    /\ last.op = "startAutoUpdate"
    /\ ~last.started
    /\ Cardinality(LiveTimers) = 1
    /\ \A t \in LiveTimers : timers[t].callback # last.callback

\* C7: a timer that stopAutoUpdate has cancelled never ticks again, whatever
\* was in flight when it was cancelled.
C7_NoTickAfterStop ==
    [][ \A t \in DOMAIN timers : Stopped(t) => timers'[t].fired = timers[t].fired ]_vars

\* A timer stopped after it ticked, while the call of that tick is still
\* suspended and the next tick was due.
C7_Witness ==
    \E t \in DOMAIN timers :
        /\ Stopped(t)
        /\ timers[t].fired > 0
        /\ timers[t].elapsed = updateInterval
        /\ \E c \in BagToSet(calls) : c.timer = t

\* C8: stopAutoUpdate called while polling is disabled changes neither the
\* flag, nor the handle, nor any other state.
C8_StopWhenDisabled ==
    [][ (last'.op = "stopAutoUpdate" /\ ~autoUpdateEnabled)
        => UNCHANGED <<autoUpdateEnabled, updateTimer, timers, calls, issued, equipmentData>> ]_vars

\* stopAutoUpdate called on a client that was never started.
C8_Witness ==
    /\ last.op = "stopAutoUpdate"
    /\ ~last.stopped
    /\ updateTimer = JsUndefined
    /\ timers = <<>>

\* C12: the timer handle is present exactly when the enabled flag is set,
\* and then it is the one live timer's; the constructed client is disabled
\* without a handle, startAutoUpdate leaves it enabled and stopAutoUpdate
\* disabled.
C12_HandleIffEnabled ==
    /\ Truthy(updateTimer) <=> autoUpdateEnabled
    /\ autoUpdateEnabled => (updateTimer.v \in DOMAIN timers /\ timers[updateTimer.v].active)
    /\ last.op = "constructor" => (~autoUpdateEnabled /\ updateTimer = JsUndefined)
    /\ last.op = "startAutoUpdate" => autoUpdateEnabled
    /\ last.op = "stopAutoUpdate" => ~autoUpdateEnabled

\* The client enabled again by a startAutoUpdate after a stopAutoUpdate.
C12_Witness ==
    /\ last.op = "startAutoUpdate"
    /\ last.started
    /\ autoUpdateEnabled
    /\ updateTimer = Num(2)
    /\ ~timers[1].active

\* The invocations of timer t's callback that are suspended at an await.
InFlight(t) == BagCardinality([c \in {d \in BagToSet(calls) : d.timer = t} |-> calls[c]])

\* C14: a tick is neither skipped nor delayed while an earlier invocation is
\* pending: a live timer whose interval has elapsed can tick, whatever is
\* suspended, so two invocations of the callback can be in flight at once.
C14_TickNotSkipped ==
    \A t \in DOMAIN timers :
        (timers[t].active /\ timers[t].elapsed >= updateInterval /\ issued < MaxCalls)
        => ENABLED Tick(t)

\* Two invocations of one timer's callback suspended at the same time.
C14_Witness == \E t \in DOMAIN timers : InFlight(t) >= 2

\* C15: stopAutoUpdate aborts nothing: the invocations suspended when it is
\* called stay suspended and complete later, so a record can change while
\* the client is disabled.
C15_StopAbortsNothing ==
    [][ last'.op = "stopAutoUpdate" => (calls' = calls /\ equipmentData' = equipmentData) ]_vars

\* A merge started by a tick has completed and changed a record after its
\* timer was stopped, the client being disabled.
C15_Witness ==
    /\ Completed("updateEquipmentWithIoTData")
    /\ last.timer # 0
    /\ ~timers[last.timer].active
    /\ ~autoUpdateEnabled
    /\ equipmentData # last.before

\* C18: the live timers number 1 when the client is enabled and 0 when it is
\* disabled; the live timer is the latest startAutoUpdate's, every invocation
\* is of the callback given when its timer was created, and a tick is always
\* the current timer's, so a restart with another callback never invokes the
\* first one again.
C18_OneLiveTimer ==
    /\ Cardinality(LiveTimers) = IF autoUpdateEnabled THEN 1 ELSE 0
    /\ autoUpdateEnabled => LiveTimers = {Len(timers)}
    /\ \A c \in BagToSet(calls) : c.timer # 0 => c.op = timers[c.timer].callback
    /\ last.op = "tick" => (autoUpdateEnabled /\ updateTimer = Num(last.timer))

\* After start(cb1), stop, start(cb2) with cb1 # cb2, a tick of the second
\* timer, the first one having ticked before it was stopped.
C18_Witness ==
    /\ Len(timers) = 2
    /\ timers[1].callback # timers[2].callback
    /\ timers[1].fired = 1
    /\ last.op = "tick"
    /\ last.timer = 2
    /\ \E c \in BagToSet(calls) : c.timer = 2 /\ c.op = timers[2].callback

\* The reading a record carries.
ReadingOf(record) == <<Get(record, "currentHours"), Get(record, "lastIoTUpdate")>>

\* C19: under every interleaving of overlapping merges, a record's
\* currentHours and lastIoTUpdate come from one document, two records that
\* every document matches carry the same document's reading, and a merge
\* that completes leaves its own document's reading in them, whenever it
\* was started.
C19_MergeAtomic ==
    /\ \A i \in DOMAIN equipmentData :
          ReadingOf(equipmentData[i]) \in Readings \cup {ReadingOf(PollList[i])}
    /\ (\E i \in DOMAIN equipmentData : ReadingOf(equipmentData[i]) \in Readings)
          => ReadingOf(equipmentData[1]) = ReadingOf(equipmentData[2])
    /\ MergedWithMapping => \A i \in DOMAIN equipmentData : CarriesReading(i)

\* Two merges overlapped; the one started first (by the first timer)
\* completed last and replaced the reading the other had written.
C19_Witness ==
    /\ MergedWithMapping
    /\ last.timer = 1
    /\ Len(timers) = 2
    /\ timers[2].fired = 1
    /\ ReadingOf(last.before[1]) \in Readings
    /\ ReadingOf(last.before[1]) # ReadingOf(equipmentData[1])
    /\ ReadingOf(equipmentData[2]) = ReadingOf(equipmentData[1])

----------------------------------------------------------------------------
(* Properties of direct calls and polling together, under SpecMixed.        *)

\* C17: no retry: an invocation of fetchIoTData, refreshIoTData,
\* updateEquipmentWithIoTData or getIoTStatus issues exactly one retrieval,
\* whether it fails or succeeds, and a getIoTStatus invoked by a tick whose
\* retrieval fails yields the unavailable status, tick after tick.
C17_SingleAttempt ==
    /\ \A c \in BagToSet(calls) : c.attempts = 1
    /\ last.op \in Methods =>
          /\ last.attempts = 1
          /\ (last.outcome.kind \in Failures /\ last.op \in {"fetchIoTData", "refreshIoTData"})
                => last.result = JsNull
          /\ (last.outcome.kind \in Failures /\ last.op = "updateEquipmentWithIoTData")
                => last.result = last.before
          /\ (last.outcome.kind \in Failures /\ last.op = "getIoTStatus")
                => last.result = Unavailable

\* The second tick of a timer whose callback awaits getIoTStatus has, like
\* the first, met a failed retrieval and yielded the unavailable status.
C17_Witness ==
    /\ Completed("getIoTStatus")
    /\ last.timer # 0
    /\ timers[last.timer].fired = 2
    /\ timers[last.timer].active
    /\ calls = EmptyBag
    /\ last.outcome.kind \in Failures
    /\ last.result = Unavailable

----------------------------------------------------------------------------
(* Properties of polling in behaviours that never end, under SpecLive.      *)

====
